---- MODULE Spec2Model ----
(***************************************************************************)
(* A model of src/parse.rs (crate aoc): the integer iterators Ints and     *)
(* UInts, IterUnwrap::collect_n, Parse::try_between and the incremental    *)
(* Parser.                                                                 *)
(*                                                                         *)
(* A &str is a sequence of one-character strings (ASCII only, so every     *)
(* byte offset is a character boundary).  Rust's 0-based half-open slices  *)
(* s[i..j] are written Slice(s, i, j).  A panic is the result Panic(msg);   *)
(* it ends the run.                                                        *)
(***************************************************************************)
EXTENDS Integers, Sequences, FiniteSets, TLC

VARIABLES
    src,      \* the source &str the iterator or parser was built from
    kind,     \* which iterator is under test: "Ints", "UInts" or "Chars"
    T,        \* the item type T of Ints<T> / UInts<T>
    s,        \* Ints::s / UInts::s: the text not yet scanned
    inner,    \* Parser::inner: the text not yet consumed
    alive,    \* FALSE once the Parser value was moved out (rest, after)
    op,       \* the method called last
    arg,      \* its arguments
    pre,      \* the cursor (s or inner) when it was called
    ret,      \* what it returned
    prevOp,   \* the method called before it
    yielded,  \* every item next() has produced so far, in order
    ends,     \* how many times next() has returned None
    pc,       \* where a call of next() run statement by statement stands
    scan_i,   \* its local i
    scan_j    \* its local j

vars == <<src, kind, T, s, inner, alive, op, arg, pre, ret, prevOp, yielded, ends,
          pc, scan_i, scan_j>>

----------------------------------------------------------------------------
(* Bounds of the model *)

MaxLen == 3      \* longest generated source string
MaxN == 3        \* largest N of collect_n::<N>
MaxEnds == 2     \* next() is called until it has returned None this often
MaxDelim == 2    \* longest generated delimiter

----------------------------------------------------------------------------
(* Strings and Option *)

None == [tag |-> "None"]
Some(v) == [tag |-> "Some", v |-> v]
\* a panic, with the kind of message it carries
Panic(msg) == [tag |-> "Panic", msg |-> msg]

\* s[i..j]
Slice(str, i, j) == SubSeq(str, i + 1, j)

\* s.idx(i) = s.as_bytes()[i]
idx(str, i) == str[i + 1]

RECURSIVE StringsUpTo(_, _)
StringsUpTo(alphabet, n) ==
    IF n = 0 THEN {<<>>}
    ELSE LET shorter == StringsUpTo(alphabet, n - 1)
         IN  shorter \cup {Append(w, c) : w \in shorter, c \in alphabet}

Digits == {"0", "1", "2", "3", "4", "5", "6", "7", "8", "9"}

is_ascii_digit(ch) == ch \in Digits

DigitValue(ch) ==
    CASE ch = "0" -> 0 [] ch = "1" -> 1 [] ch = "2" -> 2 [] ch = "3" -> 3
      [] ch = "4" -> 4 [] ch = "5" -> 5 [] ch = "6" -> 6 [] ch = "7" -> 7
      [] ch = "8" -> 8 [] ch = "9" -> 9

----------------------------------------------------------------------------
(* FromStrUnwrap::parse: s.parse::<T>().unwrap() for the integer types *)

Types == {"i8", "u8", "i32"}

is_signed_ty(t) == t \in {"i8", "i32"}

TMin(t) == CASE t = "i8" -> -128 [] t = "u8" -> 0 [] t = "i32" -> -2147483647 - 1

TMax(t) == CASE t = "i8" -> 127 [] t = "u8" -> 255 [] t = "i32" -> 2147483647

\* the digits of str accumulated left to right, acc * 10 + digit
RECURSIVE Accumulate(_, _)
Accumulate(str, acc) ==
    IF str = <<>> THEN acc
    ELSE Accumulate(Tail(str), acc * 10 + DigitValue(Head(str)))

\* <T as FromStr>::from_str: Some(value), or None for an Err
from_str(t, str) ==
    IF str = <<>> THEN None
    ELSE IF Head(str) \in {"+", "-"} /\ Len(str) = 1 THEN None
    ELSE LET negative == Head(str) = "-" /\ is_signed_ty(t)
             digits == IF Head(str) = "+" \/ negative THEN Tail(str) ELSE str
         IN  IF \E k \in 1..Len(digits) : ~is_ascii_digit(digits[k]) THEN None
             ELSE LET magnitude == Accumulate(digits, 0)
                      value == IF negative THEN -magnitude ELSE magnitude
                  IN  IF value < TMin(t) \/ value > TMax(t) THEN None
                      ELSE Some(value)

\* .unwrap(): an Err panics
parse_uw(t, str) ==
    LET r == from_str(t, str) IN IF r = None THEN Panic("unwrap on Err") ELSE r

----------------------------------------------------------------------------
(* Ints::next *)

\* faulty variant: '-' is not taken for a sign
is_digit_or_plus(ch) == is_ascii_digit(ch) \/ ch = "+"

is_digit_or_sign(ch) == is_ascii_digit(ch) \/ ch = "-" \/ ch = "+"

\* while i < s.len() && !is_digit_or_sign(s.idx(i)) { i += 1 }
RECURSIVE SkipToDigitOrSign(_, _)
SkipToDigitOrSign(str, i) ==
    IF i < Len(str) /\ ~is_digit_or_sign(idx(str, i))
    THEN SkipToDigitOrSign(str, i + 1) ELSE i

\* while j < s.len() && s.idx(j).is_ascii_digit() { j += 1 }
RECURSIVE SkipDigits(_, _)
SkipDigits(str, j) ==
    IF j < Len(str) /\ is_ascii_digit(idx(str, j))
    THEN SkipDigits(str, j + 1) ELSE j

\* faulty variant: the sign byte is left out of the token that is parsed
RECURSIVE IntsLoop_DropSign(_, _, _)
IntsLoop_DropSign(t, str, i0) ==
    LET i == SkipToDigitOrSign(str, i0)
    IN  IF i >= Len(str) THEN [ret |-> None, s |-> str]
        ELSE LET j == SkipDigits(str, i + 1)
             IN  IF ~is_ascii_digit(idx(str, j - 1))
                 THEN IntsLoop_DropSign(t, str, j)
                 ELSE [ret |-> parse_uw(t, IF is_ascii_digit(idx(str, i))
                                           THEN Slice(str, i, j)
                                           ELSE Slice(str, i + 1, j)),
                       s |-> Slice(str, j, Len(str))]

\* faulty variant: a sign with no digit after it ends the iteration
IntsLoop_EndOnLoneSign(t, str, i0) ==
    LET i == SkipToDigitOrSign(str, i0)
    IN  IF i >= Len(str) THEN [ret |-> None, s |-> str]
        ELSE LET j == SkipDigits(str, i + 1)
             IN  IF ~is_ascii_digit(idx(str, j - 1))
                 THEN [ret |-> None, s |-> str]
                 ELSE [ret |-> parse_uw(t, Slice(str, i, j)),
                       s |-> Slice(str, j, Len(str))]

\* the loop of Ints::next entered with index i0: the value returned and the
\* new self.s (self.s is assigned before the token is parsed)
RECURSIVE IntsLoop(_, _, _)
IntsLoop(t, str, i0) ==
    LET i == SkipToDigitOrSign(str, i0)
    IN  IF i >= Len(str) THEN [ret |-> None, s |-> str]
        ELSE LET j == SkipDigits(str, i + 1)
             IN  IF ~is_ascii_digit(idx(str, j - 1)) THEN IntsLoop(t, str, j)
                 ELSE [ret |-> parse_uw(t, Slice(str, i, j)),
                       s |-> Slice(str, j, Len(str))]

Ints_next(t, str) == IntsLoop(t, str, 0)

----------------------------------------------------------------------------
(* UInts::next *)

\* while i < s.len() && !s.idx(i).is_ascii_digit() { i += 1 }
RECURSIVE SkipToDigit(_, _)
SkipToDigit(str, i) ==
    IF i < Len(str) /\ ~is_ascii_digit(idx(str, i))
    THEN SkipToDigit(str, i + 1) ELSE i

\* faulty variant: the scan stops at a sign too, as in Ints::next
UInts_next_StopAtSign(t, str) ==
    LET i == SkipToDigitOrSign(str, 0)
    IN  IF i >= Len(str) THEN [ret |-> None, s |-> str]
        ELSE LET j == SkipDigits(str, i + 1)
             IN  [ret |-> parse_uw(t, Slice(str, i, j)),
                  s |-> Slice(str, j, Len(str))]

UInts_next(t, str) ==
    LET i == SkipToDigit(str, 0)
    IN  IF i >= Len(str) THEN [ret |-> None, s |-> str]
        ELSE LET j == SkipDigits(str, i + 1)
             IN  [ret |-> parse_uw(t, Slice(str, i, j)),
                  s |-> Slice(str, j, Len(str))]

----------------------------------------------------------------------------
(* str::chars(), the iterator of collect_n's documented example *)

Chars_next(str) ==
    IF str = <<>> THEN [ret |-> None, s |-> str]
    ELSE [ret |-> Some(Head(str)), s |-> Tail(str)]

\* Iterator::next of the iterator under test
iter_next(k, t, str) ==
    CASE k = "Ints" -> Ints_next(t, str)
      [] k = "UInts" -> UInts_next(t, str)
      [] k = "Chars" -> Chars_next(str)

----------------------------------------------------------------------------
(* IterUnwrap::collect_n *)

\* [(); N].map(|_| self.next()): next() is called N times, whatever it
\* returns, unless one of the calls panics
RECURSIVE MapNext(_, _, _, _)
MapNext(k, t, str, n) ==
    IF n = 0 THEN [arr |-> <<>>, s |-> str, panic |-> FALSE, ret |-> None]
    ELSE LET r == iter_next(k, t, str)
         IN  IF r.ret.tag = "Panic"
             THEN [arr |-> <<>>, s |-> r.s, panic |-> TRUE, ret |-> r.ret]
             ELSE LET more == MapNext(k, t, r.s, n - 1)
                  IN  [arr |-> <<r.ret>> \o more.arr, s |-> more.s,
                       panic |-> more.panic, ret |-> more.ret]

\* faulty variant: next() is called once more than N times
collect_n_OneMore(k, t, str, n) ==
    LET m == MapNext(k, t, str, n + 1)
        arr == SubSeq(m.arr, 1, n)
    IN  [ret |-> IF m.panic THEN m.ret
                 ELSE IF \E x \in 1..Len(arr) : arr[x] = None
                 THEN Panic("not enough elements")
                 ELSE [tag |-> "Array", v |-> [x \in 1..Len(arr) |-> arr[x].v]],
         s |-> m.s,
         arr |-> arr]

\* the array returned (or the panic), the iterator's new cursor, and every
\* Option the calls of next() returned
collect_n(k, t, str, n) ==
    LET m == MapNext(k, t, str, n)
    IN  [ret |-> IF m.panic THEN m.ret
                 ELSE IF \E x \in 1..Len(m.arr) : m.arr[x] = None
                 THEN Panic("not enough elements")
                 ELSE [tag |-> "Array", v |-> [x \in 1..Len(m.arr) |-> m.arr[x].v]],
         s |-> m.s,
         arr |-> m.arr]

----------------------------------------------------------------------------
(* str::find and str::split_once, as the methods below use them *)

\* the first byte offset at or after i where pat occurs in str
RECURSIVE FindFrom(_, _, _)
FindFrom(str, pat, i) ==
    IF i + Len(pat) > Len(str) THEN None
    ELSE IF Slice(str, i, i + Len(pat)) = pat THEN Some(i)
    ELSE FindFrom(str, pat, i + 1)

find(str, pat) == FindFrom(str, pat, 0)

split_once(str, pat) ==
    LET f == find(str, pat)
    IN  IF f = None THEN None
        ELSE Some(<<Slice(str, 0, f.v), Slice(str, f.v + Len(pat), Len(str))>>)

----------------------------------------------------------------------------
(* Parse::try_between *)

\* faulty variant: post is searched from the start of the string
try_between_PostFromStart(str, prefix, post) ==
    LET f == find(str, prefix)
    IN  IF f = None THEN None
        ELSE LET start == f.v + Len(prefix)
                 g == find(str, post)
                 end == IF g = None THEN Len(str) ELSE g.v
             IN  Some(Slice(str, start, end))

try_between(str, prefix, post) ==
    LET f == find(str, prefix)
    IN  IF f = None THEN None
        ELSE LET start == f.v + Len(prefix)
                 rest == Slice(str, start, Len(str))
                 g == find(rest, post)
                 end == (IF g = None THEN Len(rest) ELSE g.v) + start
             IN  Some(Slice(str, start, end))

----------------------------------------------------------------------------
(* Parser: each method gives the value returned (or the panic) and the     *)
(* value of self.inner when it returns or panics                           *)

Str(v) == [tag |-> "Str", v |-> v]

\* a Parser value: the clone skip returns
ParserOf(v) == [tag |-> "Parser", inner |-> v]

\* faulty variant: the clone is taken before the cursor is advanced
Parser_skip_CloneFirst(in, n) ==
    IF n > Len(in) THEN [ret |-> Panic("index out of range"), inner |-> in]
    ELSE [ret |-> ParserOf(in), inner |-> Slice(in, n, Len(in))]

Parser_skip(in, n) ==
    IF n > Len(in) THEN [ret |-> Panic("index out of range"), inner |-> in]
    ELSE [ret |-> ParserOf(Slice(in, n, Len(in))), inner |-> Slice(in, n, Len(in))]

\* faulty variant: the cursor is not advanced
Parser_take_NoAdvance(in, n) ==
    IF n > Len(in) THEN [ret |-> Panic("index out of range"), inner |-> in]
    ELSE [ret |-> Str(Slice(in, 0, n)), inner |-> in]

Parser_take(in, n) ==
    IF n > Len(in) THEN [ret |-> Panic("index out of range"), inner |-> in]
    ELSE [ret |-> Str(Slice(in, 0, n)), inner |-> Slice(in, n, Len(in))]

Parser_rest(in) == [ret |-> Str(in), inner |-> in]

\* faulty variant: the two halves of the split are exchanged
Parser_before_Swapped(in, suffix) ==
    LET sp == split_once(in, suffix)
    IN  IF sp = None
        THEN [ret |-> Panic("suffix should be contained in the string"),
              inner |-> in]
        ELSE [ret |-> Str(sp.v[2]), inner |-> sp.v[1]]

\* faulty variant: the matched suffix stays in the cursor
Parser_before_KeepSuffix(in, suffix) ==
    LET f == find(in, suffix)
    IN  IF f = None
        THEN [ret |-> Panic("suffix should be contained in the string"),
              inner |-> in]
        ELSE [ret |-> Str(Slice(in, 0, f.v)), inner |-> Slice(in, f.v, Len(in))]

Parser_before(in, suffix) ==
    LET sp == split_once(in, suffix)
    IN  IF sp = None
        THEN [ret |-> Panic("suffix should be contained in the string"),
              inner |-> in]
        ELSE [ret |-> Str(sp.v[1]), inner |-> sp.v[2]]

\* faulty variant: prefix.len() is not added to the offset found
Parser_after_KeepPrefix(in, prefix) ==
    LET f == find(in, prefix)
    IN  IF f = None
        THEN [ret |-> Panic("prefix should be contained in the string"),
              inner |-> in]
        ELSE [ret |-> Str(Slice(in, f.v, Len(in))), inner |-> in]

Parser_after(in, prefix) ==
    LET f == find(in, prefix)
    IN  IF f = None
        THEN [ret |-> Panic("prefix should be contained in the string"),
              inner |-> in]
        ELSE [ret |-> Str(Slice(in, f.v + Len(prefix), Len(in))), inner |-> in]

\* faulty variant: self is assigned only when both delimiters were found
Parser_between_Restoring(in, prefix, suffix) ==
    LET a == Parser_after(in, prefix)
    IN  IF a.ret.tag = "Panic" THEN [ret |-> a.ret, inner |-> in]
        ELSE LET b == Parser_before(a.ret.v, suffix)
             IN  IF b.ret.tag = "Panic" THEN [ret |-> b.ret, inner |-> in]
                 ELSE b

\* faulty variant: suffix is searched in the cursor as it was before the
\* prefix match was consumed
Parser_between_SuffixAnywhere(in, prefix, suffix) ==
    LET a == Parser_after(in, prefix)
    IN  IF a.ret.tag = "Panic" THEN [ret |-> a.ret, inner |-> in]
        ELSE LET b == Parser_before(in, suffix)
             IN  IF b.ret.tag = "Panic" THEN [ret |-> b.ret, inner |-> a.ret.v]
                 ELSE b

\* *self = Self { inner: self.clone().after(prefix) }; self.before(suffix)
Parser_between(in, prefix, suffix) ==
    LET a == Parser_after(in, prefix)
    IN  IF a.ret.tag = "Panic" THEN [ret |-> a.ret, inner |-> in]
        ELSE Parser_before(a.ret.v, suffix)

----------------------------------------------------------------------------
(* The iterators: construction (ints_iter, uints_iter, chars) and calls *)

IterAlphabet == {"0", "7", "-", "+", ","}

\* "15, -302 and +45.": the documented example of ints_iter and uints_iter
DocInts ==
    <<"1", "5", ",", " ", "-", "3", "0", "2", " ", "a", "n", "d", " ",
      "+", "4", "5", ".">>

\* "++4, -+5, --6": the strings the documentation says are not signed integers
DocSigns == <<"+", "+", "4", ",", " ", "-", "+", "5", ",", " ", "-", "-", "6">>

IterSources == StringsUpTo(IterAlphabet, MaxLen) \cup {DocInts, DocSigns}

Kinds == {"Ints", "UInts", "Chars"}

\* the values of the Some(_) in a sequence of Options, in order
RECURSIVE Values(_)
Values(opts) ==
    IF opts = <<>> THEN <<>>
    ELSE IF Head(opts).tag = "Some" THEN <<Head(opts).v>> \o Values(Tail(opts))
    ELSE Values(Tail(opts))

RECURSIVE CountNone(_)
CountNone(opts) ==
    IF opts = <<>> THEN 0
    ELSE (IF Head(opts) = None THEN 1 ELSE 0) + CountNone(Tail(opts))

\* ints_iter / uints_iter / chars: the iterator starts on the whole string
Init ==
    /\ src \in IterSources
    /\ kind \in Kinds
    /\ T \in IF kind = "Chars" THEN {"char"} ELSE Types
    /\ s = src
    /\ op = "new"
    /\ arg = <<>>
    /\ pre = src
    /\ ret = None
    /\ prevOp = "none"
    /\ yielded = <<>>
    /\ ends = 0
    /\ inner = <<>>
    /\ alive = FALSE
    /\ pc = "idle"
    /\ scan_i = 0
    /\ scan_j = 0

\* a call is made while nothing has panicked and the end was signalled
\* fewer than MaxEnds times
CanCall == ret.tag # "Panic" /\ ends < MaxEnds

\* the effect of one call of next() on the state
Called(r) ==
    /\ s' = r.s
    /\ op' = "next"
    /\ arg' = <<>>
    /\ pre' = s
    /\ ret' = r.ret
    /\ yielded' = yielded \o Values(<<r.ret>>)
    /\ ends' = ends + CountNone(<<r.ret>>)
    /\ UNCHANGED <<src, kind, T, inner, alive, prevOp, pc, scan_i, scan_j>>

IntsNext == kind = "Ints" /\ CanCall /\ Called(Ints_next(T, s))

UIntsNext == kind = "UInts" /\ CanCall /\ Called(UInts_next(T, s))

CharsNext == kind = "Chars" /\ CanCall /\ Called(Chars_next(s))

CollectN ==
    /\ CanCall
    /\ \E n \in 0..MaxN :
         LET r == collect_n(kind, T, s, n)
         IN  /\ s' = r.s
             /\ op' = "collect_n"
             /\ arg' = <<n>>
             /\ pre' = s
             /\ ret' = r.ret
             /\ yielded' = yielded \o Values(r.arr)
             /\ ends' = ends + CountNone(r.arr)
    /\ UNCHANGED <<src, kind, T, inner, alive, prevOp, pc, scan_i, scan_j>>

Next == IntsNext \/ UIntsNext \/ CharsNext \/ CollectN

Spec == Init /\ [][Next]_vars

----------------------------------------------------------------------------
(* What the claims speak of: digit runs of a string, described by position *)
(* (1-based), independently of the scanning loops above                    *)

IsPrefix(a, b) == Len(a) <= Len(b) /\ a = SubSeq(b, 1, Len(a))

HasDigit(c) == \E k \in 1..Len(c) : c[k] \in Digits

\* positions at which a maximal run of digits starts
RunStarts(c) ==
    {i \in 1..Len(c) : c[i] \in Digits /\ (i = 1 \/ c[i - 1] \notin Digits)}

\* the last position of the maximal run that starts at i
RunLast(c, i) ==
    CHOOSE j \in i..Len(c) :
        /\ \A k \in i..j : c[k] \in Digits
        /\ (j = Len(c) \/ c[j + 1] \notin Digits)

Min(S) == CHOOSE x \in S : \A y \in S : x <= y

RECURSIVE Pow10(_)
Pow10(n) == IF n = 0 THEN 1 ELSE 10 * Pow10(n - 1)

RECURSIVE PlaceSum(_, _)
PlaceSum(d, k) ==
    IF k > Len(d) THEN 0
    ELSE DigitValue(d[k]) * Pow10(Len(d) - k) + PlaceSum(d, k + 1)

\* a string of digits read as a decimal number
DecimalValue(d) == PlaceSum(d, 1)

RunValue(c, i) == DecimalValue(SubSeq(c, i, RunLast(c, i)))

RECURSIVE RunValuesFrom(_, _)
RunValuesFrom(c, starts) ==
    IF starts = {} THEN <<>>
    ELSE LET i == Min(starts)
         IN  <<RunValue(c, i)>> \o RunValuesFrom(c, starts \ {i})

\* the values of all maximal digit runs of c, left to right
RunValues(c) == RunValuesFrom(c, RunStarts(c))

\* the leftmost maximal digit run of c (c holds a digit)
LeftmostStart(c) == Min(RunStarts(c))

Negated(c) == LeftmostStart(c) > 1 /\ c[LeftmostStart(c) - 1] = "-"

SignedValue(c) ==
    IF Negated(c) THEN -RunValue(c, LeftmostStart(c))
    ELSE RunValue(c, LeftmostStart(c))

AfterLeftmostRun(c) == SubSeq(c, RunLast(c, LeftmostStart(c)) + 1, Len(c))

\* C1: every successful next() of Ints returns the value of the leftmost
\* maximal digit run of the cursor, negated exactly when the byte just before
\* the run is '-', and leaves the cursor just after that run; on
\* "15, -302 and +45." it yields 15, -302, 45 and then the end.
C1_IntsNextLeftmostRun ==
    /\ (kind = "Ints" /\ op = "next" /\ ret.tag = "Some") =>
          /\ HasDigit(pre)
          /\ ret.v = SignedValue(pre)
          /\ s = AfterLeftmostRun(pre)
    /\ (kind = "Ints" /\ src = DocInts /\ T = "i32") =>
          /\ IsPrefix(yielded, <<15, -302, 45>>)
          /\ ret # Panic("unwrap on Err")
          /\ (ends >= 1 => yielded = <<15, -302, 45>>)

C1_Witness ==
    /\ kind = "Ints" /\ src = DocInts /\ T = "i32" /\ op = "next"
    /\ ret = Some(-302)
    /\ pre = SubSeq(DocInts, 3, Len(DocInts))
    /\ s = SubSeq(DocInts, 9, Len(DocInts))

\* C2 as stated: "++4, -+5, --6" yields exactly 4, 5, 6 and then the end.
C2_Original ==
    (kind = "Ints" /\ src = DocSigns /\ T = "i32") =>
        /\ IsPrefix(yielded, <<4, 5, 6>>)
        /\ (ends >= 1 => yielded = <<4, 5, 6>>)

\* C2 amended: with a signed item type "++4, -+5, --6" yields exactly
\* 4, 5, -6 (the '-' next to the 6 applies) and then the end.
C2_DocSignsYield ==
    (kind = "Ints" /\ src = DocSigns /\ is_signed_ty(T)) =>
        /\ IsPrefix(yielded, <<4, 5, -6>>)
        /\ ret # Panic("unwrap on Err")
        /\ (ends >= 1 => yielded = <<4, 5, -6>>)
        /\ (yielded = <<4, 5, -6>> /\ op = "next" => ends >= 1 \/ ret = Some(-6))

C2_Witness ==
    /\ kind = "Ints" /\ src = DocSigns /\ T = "i32" /\ op = "next"
    /\ ret = None /\ ends = 1
    /\ yielded = <<4, 5, -6>>

\* C3: UInts yields, left to right, one value per maximal digit run of the
\* source, each the run read as a decimal number, whatever signs surround it:
\* what it has yielded is always a prefix of the runs' values, it signals the
\* end only after the last run, and it panics only on a run T cannot hold.
\* "15, -302 and +45." yields 15, 302, 45.
C3_UIntsOnePerRun ==
    /\ kind = "UInts" =>
          /\ IsPrefix(yielded, RunValues(src))
          /\ (ends >= 1 => yielded = RunValues(src))
          /\ (ret = Panic("unwrap on Err") =>
                /\ Len(yielded) < Len(RunValues(src))
                /\ RunValues(src)[Len(yielded) + 1] > TMax(T))
          /\ (op = "next" /\ ret.tag = "Some" =>
                /\ yielded # <<>>
                /\ ret.v = yielded[Len(yielded)]
                /\ ret.v = RunValue(pre, LeftmostStart(pre)))
    /\ (kind = "UInts" /\ src = DocInts /\ T = "i32") =>
          /\ IsPrefix(yielded, <<15, 302, 45>>)
          /\ ret # Panic("unwrap on Err")
          /\ (ends >= 1 => yielded = <<15, 302, 45>>)

C3_Witness ==
    /\ kind = "UInts" /\ src = DocInts /\ T = "i32" /\ op = "next"
    /\ ret = None /\ ends = 1
    /\ yielded = <<15, 302, 45>>

\* T holds the token of the leftmost run of c: its signed value is in range,
\* and a '-' before it needs a signed type
TokenFits(t, c) ==
    /\ Negated(c) => is_signed_ty(t)
    /\ SignedValue(c) >= TMin(t)
    /\ SignedValue(c) <= TMax(t)

\* C4: next() of Ints signals the end exactly when the cursor holds no digit;
\* a sign with no digit after it is skipped, neither yielded nor fatal (a
\* panic comes only from a digit run T cannot hold); once the end was
\* signalled, the cursor holds no digit and every later next() signals it too.
C4_IntsEndIffNoDigit ==
    /\ (kind = "Ints" /\ op = "next") =>
          /\ (ret = None <=> ~HasDigit(pre))
          /\ (ret = None => s = pre)
          /\ (ret.tag = "Panic" <=> (HasDigit(pre) /\ ~TokenFits(T, pre)))
    /\ (kind = "Ints" /\ ends >= 1) =>
          /\ ~HasDigit(s)
          /\ (op = "next" => ret = None)

C4_Witness ==
    /\ kind = "Ints" /\ op = "next" /\ ret = None /\ ends = 2
    /\ \E k \in 1..Len(pre) : pre[k] \in {"+", "-"}
    /\ yielded # <<>>

\* the first n results of calling next() on cursor c again and again,
\* stopping at the first that is not Some
RECURSIVE Upcoming(_, _, _, _)
Upcoming(k, t, c, n) ==
    IF n = 0 THEN [items |-> <<>>, s |-> c]
    ELSE LET r == iter_next(k, t, c)
         IN  IF r.ret.tag # "Some" THEN [items |-> <<>>, s |-> r.s]
             ELSE LET more == Upcoming(k, t, r.s, n - 1)
                  IN  [items |-> <<r.ret.v>> \o more.items, s |-> more.s]

\* C10: collect_n::<N> fails when fewer than N items come before the end;
\* otherwise it returns the next N items in order, consumes exactly N items
\* and leaves the iterator just after the N-th.
C10_CollectN ==
    op = "collect_n" =>
        LET n == arg[1]
            up == Upcoming(kind, T, pre, n)
        IN  /\ Len(up.items) < n => ret.tag = "Panic"
            /\ Len(up.items) = n =>
                  /\ ret.tag = "Array"
                  /\ ret.v = up.items
                  /\ s = up.s
                  /\ Len(yielded) >= n
                  /\ SubSeq(yielded, Len(yielded) - n + 1, Len(yielded)) = up.items
            /\ kind = "Chars" =>
                  IF n <= Len(pre)
                  THEN /\ ret.tag = "Array"
                       /\ ret.v = SubSeq(pre, 1, n)
                       /\ s = SubSeq(pre, n + 1, Len(pre))
                  ELSE ret = Panic("not enough elements")
            /\ (kind = "UInts" /\ ret.tag # "Panic") =>
                  /\ n <= Len(RunValues(pre))
                  /\ ret.v = SubSeq(RunValues(pre), 1, n)
                  /\ RunValues(s) = SubSeq(RunValues(pre), n + 1, Len(RunValues(pre)))

C10_Witness ==
    /\ op = "collect_n" /\ arg = <<2>> /\ kind = "Ints" /\ src = DocInts
    /\ ret.tag = "Array" /\ ret.v = <<15, -302>>
    /\ s = SubSeq(DocInts, 9, Len(DocInts))
    /\ RunValues(s) = <<45>>

----------------------------------------------------------------------------
(* The parser: as_parser and calls of its methods, and try_between *)

MaxParserLen == 4   \* longest generated source string of a parser

ParserAlphabet == {"a", "b"}

\* "move 10 from 271 to 3": the documented example of Parser
DocMove ==
    <<"m", "o", "v", "e", " ", "1", "0", " ", "f", "r", "o", "m", " ",
      "2", "7", "1", " ", "t", "o", " ", "3">>

\* "ecl:gry pid:860033327 eyr:2020": the documented example of try_between
DocPassport ==
    <<"e", "c", "l", ":", "g", "r", "y", " ", "p", "i", "d", ":",
      "8", "6", "0", "0", "3", "3", "3", "2", "7", " ",
      "e", "y", "r", ":", "2", "0", "2", "0">>

ParserSources == StringsUpTo(ParserAlphabet, MaxParserLen) \cup {DocMove, DocPassport}

\* the delimiters tried on a source: generated ones, or the documented ones
Delims(source) ==
    IF source = DocMove
    THEN {<<" ">>, <<"m", "o", "v", "e", " ">>, <<"f", "r", "o", "m", " ">>,
          <<"t", "o", " ">>}
    ELSE IF source = DocPassport
    THEN {<<" ">>, <<"e", "c", "l", ":">>, <<"p", "i", "d", ":">>,
          <<"e", "y", "r", ":">>, <<"c", "i", "d", ":">>}
    ELSE StringsUpTo(ParserAlphabet, MaxDelim)

\* the byte counts tried on a cursor: every valid one and one too many
Counts(in) == 0..(Len(in) + 1)

\* as_parser: Parser::new(self)
ParserInit ==
    /\ src \in ParserSources
    /\ inner = src
    /\ alive = TRUE
    /\ op = "new"
    /\ arg = <<>>
    /\ pre = src
    /\ ret = None
    /\ prevOp = "none"
    /\ kind = "Parser"
    /\ T = "str"
    /\ s = <<>>
    /\ yielded = <<>>
    /\ ends = 0
    /\ pc = "idle"
    /\ scan_i = 0
    /\ scan_j = 0

\* a method is called on a parser that was not moved out, while nothing
\* has panicked
CanUse == alive /\ ret.tag # "Panic"

\* the effect of a call on the state; consumed: the method takes self
Used(name, args, r, consumed) ==
    /\ inner' = r.inner
    /\ alive' = (alive /\ ~consumed)
    /\ op' = name
    /\ arg' = args
    /\ pre' = inner
    /\ ret' = r.ret
    /\ prevOp' = op
    /\ UNCHANGED <<src, kind, T, s, yielded, ends, pc, scan_i, scan_j>>

Skip == CanUse /\ \E n \in Counts(inner) : Used("skip", <<n>>, Parser_skip(inner, n), FALSE)

Take == CanUse /\ \E n \in Counts(inner) : Used("take", <<n>>, Parser_take(inner, n), FALSE)

Rest == CanUse /\ Used("rest", <<>>, Parser_rest(inner), TRUE)

Before ==
    CanUse /\ \E suffix \in Delims(src) :
        Used("before", <<suffix>>, Parser_before(inner, suffix), FALSE)

After ==
    CanUse /\ \E prefix \in Delims(src) :
        Used("after", <<prefix>>, Parser_after(inner, prefix), TRUE)

Between ==
    CanUse /\ \E prefix \in Delims(src), suffix \in Delims(src) :
        Used("between", <<prefix, suffix>>, Parser_between(inner, prefix, suffix), FALSE)

\* try_between is a method of the string itself: it is called on the source,
\* before the parser is used, and leaves the parser alone
TryBetween ==
    /\ op = "new"
    /\ \E prefix \in Delims(src), post \in Delims(src) :
        /\ op' = "try_between"
        /\ arg' = <<prefix, post>>
        /\ pre' = src
        /\ ret' = try_between(src, prefix, post)
        /\ prevOp' = op
    /\ UNCHANGED <<src, kind, T, s, inner, alive, yielded, ends, pc, scan_i, scan_j>>

ParserNext == Skip \/ Take \/ Rest \/ Before \/ After \/ Between \/ TryBetween

ParserSpec == ParserInit /\ [][ParserNext]_vars

----------------------------------------------------------------------------
(* What the claims speak of: occurrences of a delimiter in a string, by     *)
(* byte offset (0-based), independently of find and split_once above       *)

OccursAt(c, pat, p) ==
    /\ p >= 0
    /\ p + Len(pat) <= Len(c)
    /\ \A k \in 1..Len(pat) : c[p + k] = pat[k]

Occurrences(c, pat) == {p \in 0..Len(c) : OccursAt(c, pat, p)}

\* the text of c from offset a up to, not including, offset b
Text(c, a, b) == [k \in 1..(b - a) |-> c[a + k]]

\* C5: when prefix first occurs in the cursor at p and suffix first occurs at
\* or after the end of that match at q, between returns the text from the end
\* of the prefix match to q and leaves the cursor just after the suffix match;
\* the cursor, not the source, is what is searched.
C5_Between ==
    op = "between" =>
        LET prefix == arg[1]
            suffix == arg[2]
            P == Occurrences(pre, prefix)
        IN  P # {} =>
              LET p == Min(P)
                  Q == {q \in Occurrences(pre, suffix) : q >= p + Len(prefix)}
              IN  Q # {} =>
                    LET q == Min(Q)
                    IN  /\ ret = Str(Text(pre, p + Len(prefix), q))
                        /\ inner = Text(pre, q + Len(suffix), Len(pre))

C5_Witness ==
    /\ src = DocMove /\ op = "between" /\ prevOp = "between"
    /\ arg = <<(<<" ">>), (<<" ">>)>>
    /\ pre = Text(DocMove, 8, Len(DocMove))
    /\ ret = Str(<<"2", "7", "1">>)
    /\ inner = Text(DocMove, 17, Len(DocMove))

\* C6: when suffix occurs in the cursor, before returns the text before its
\* first occurrence and leaves the cursor just after that occurrence, so that
\* returned text + suffix + new cursor is the old cursor; when it does not
\* occur, the call panics and the cursor is unchanged.
C6_Before ==
    op = "before" =>
        LET suffix == arg[1]
            Q == Occurrences(pre, suffix)
        IN  IF Q # {}
            THEN /\ ret = Str(Text(pre, 0, Min(Q)))
                 /\ inner = Text(pre, Min(Q) + Len(suffix), Len(pre))
                 /\ ret.v \o suffix \o inner = pre
            ELSE /\ ret.tag = "Panic"
                 /\ inner = pre

C6_Witness ==
    /\ op = "before" /\ ret.tag = "Str"
    /\ pre # src /\ ret.v # <<>> /\ inner # <<>> /\ arg[1] # <<>>
    /\ Cardinality(Occurrences(pre, arg[1])) > 1

\* C7: skip(n) with n <= len(s) leaves the cursor s[n..] and returns a parser
\* with that same cursor, and rest() called next on the parser returns
\* s[n..]; with n > len(s) the call panics.
C7_SkipThenRest ==
    [][/\ op' = "skip" =>
             LET n == arg'[1]
             IN  IF n <= Len(inner)
                 THEN /\ inner' = Text(inner, n, Len(inner))
                      /\ ret' = ParserOf(inner')
                 ELSE ret'.tag = "Panic"
       /\ (op = "skip" /\ op' = "rest") =>
             /\ arg[1] <= Len(pre)
             /\ ret' = Str(Text(pre, arg[1], Len(pre)))]_vars

C7_Witness ==
    /\ op = "rest" /\ prevOp = "skip"
    /\ ret.v # <<>> /\ ret.v # src

\* C8: take(n) with n <= len(s) returns s[..n] and leaves the cursor skip(n)
\* would leave, so rest() after take(n) returns what rest() after skip(n)
\* returns, s[n..]; with n > len(s) the call panics.
C8_TakeLikeSkip ==
    [][/\ op' = "take" =>
             LET n == arg'[1]
             IN  IF n <= Len(inner)
                 THEN /\ ret' = Str(Text(inner, 0, n))
                      /\ inner' = Text(inner, n, Len(inner))
                      /\ inner' = Parser_skip(inner, n).inner
                 ELSE ret'.tag = "Panic"
       /\ (op = "take" /\ op' = "rest") =>
             /\ arg[1] <= Len(pre)
             /\ ret' = Str(Text(pre, arg[1], Len(pre)))
             /\ ret' = Parser_rest(Parser_skip(pre, arg[1]).inner).ret]_vars

C8_Witness ==
    /\ op = "rest" /\ prevOp = "take"
    /\ ret.v # <<>> /\ ret.v # src

\* C9: try_between returns None exactly when pre does not occur in the
\* string; otherwise the text from just after the first occurrence of pre to
\* just before the first occurrence of post after that point, or to the end of
\* the string when post does not occur there.  On
\* "ecl:gry pid:860033327 eyr:2020": ("ecl:", " ") gives "gry",
\* ("eyr:", " ") gives "2020", ("cid:", " ") gives None.
C9_TryBetween ==
    op = "try_between" =>
        LET prefix == arg[1]
            post == arg[2]
            P == Occurrences(pre, prefix)
        IN  /\ pre = src
            /\ ret = None <=> P = {}
            /\ P # {} =>
                 LET start == Min(P) + Len(prefix)
                     Q == {q \in Occurrences(pre, post) : q >= start}
                     end == IF Q = {} THEN Len(pre) ELSE Min(Q)
                 IN  ret = Some(Text(pre, start, end))
            /\ src = DocPassport =>
                 /\ arg = <<(<<"e", "c", "l", ":">>), (<<" ">>)>>
                       => ret = Some(<<"g", "r", "y">>)
                 /\ arg = <<(<<"e", "y", "r", ":">>), (<<" ">>)>>
                       => ret = Some(<<"2", "0", "2", "0">>)
                 /\ arg = <<(<<"c", "i", "d", ":">>), (<<" ">>)>>
                       => ret = None

C9_Witness ==
    /\ src = DocPassport /\ op = "try_between"
    /\ arg = <<(<<"e", "y", "r", ":">>), (<<" ">>)>>
    /\ ret = Some(<<"2", "0", "2", "0">>)

\* the offset just after the first occurrence of prefix in c (prefix occurs)
AfterFirst(c, prefix) == Min(Occurrences(c, prefix)) + Len(prefix)

\* suffix occurs in c at or after offset from
OccursFrom(c, suffix, from) == \E q \in Occurrences(c, suffix) : q >= from

\* C11: between panics exactly when prefix does not occur in the cursor, or
\* suffix does not occur in the text after the first occurrence of prefix; an
\* occurrence of suffix before or inside the prefix match does not help.
C11_BetweenFailsIff ==
    op = "between" =>
        LET prefix == arg[1]
            suffix == arg[2]
        IN  ret.tag = "Panic" <=>
              \/ Occurrences(pre, prefix) = {}
              \/ ~OccursFrom(pre, suffix, AfterFirst(pre, prefix))

C11_Witness ==
    /\ op = "between" /\ ret.tag = "Panic"
    /\ Occurrences(pre, arg[1]) # {}
    /\ Occurrences(pre, arg[2]) # {}
    /\ \E q \in Occurrences(pre, arg[2]) : q < Min(Occurrences(pre, arg[1]))
    /\ \E q \in Occurrences(pre, arg[2]) :
          q >= Min(Occurrences(pre, arg[1])) /\ q < AfterFirst(pre, arg[1])

\* a is the text of b from some offset to its end
IsSuffix(a, b) ==
    /\ Len(a) <= Len(b)
    /\ \A k \in 1..Len(a) : a[k] = b[Len(b) - Len(a) + k]

\* C12: after any sequence of skip, take, before and between calls (failed
\* ones included) the cursor is a suffix of the source, and a suffix of, so
\* never longer than, the cursor any earlier call started from.
C12_CursorOnlyShrinks ==
    /\ IsSuffix(inner, src)
    /\ IsSuffix(inner, pre)
    /\ IsSuffix(pre, src)
    /\ Len(inner) <= Len(pre)
    /\ Len(pre) <= Len(src)

C12_Witness ==
    /\ op = "between" /\ prevOp = "before" /\ ret.tag = "Str"
    /\ inner # <<>>
    /\ Len(inner) < Len(pre)
    /\ Len(pre) < Len(src)

\* C14: when between panics because prefix does not occur in the cursor, the
\* cursor is what it was before the call; when it panics because suffix does
\* not occur after the first prefix match, the cursor is the text just after
\* that match: it was advanced and is not restored.
C14_BetweenFailureCursor ==
    (op = "between" /\ ret.tag = "Panic") =>
        IF Occurrences(pre, arg[1]) = {}
        THEN /\ inner = pre
             /\ ret = Panic("prefix should be contained in the string")
        ELSE /\ inner = Text(pre, AfterFirst(pre, arg[1]), Len(pre))
             /\ ret = Panic("suffix should be contained in the string")

C14_Witness ==
    /\ op = "between"
    /\ ret = Panic("suffix should be contained in the string")
    /\ inner # pre
    /\ inner # <<>>
    /\ inner = Text(pre, AfterFirst(pre, arg[1]), Len(pre))

----------------------------------------------------------------------------
(* Ints::next and UInts::next run statement by statement: one step per     *)
(* loop iteration, so that a call that never returns is a behaviour        *)

\* the byte classes the first while loop stops at
StartByte(k, ch) == IF k = "Ints" THEN is_digit_or_sign(ch) ELSE is_ascii_digit(ch)

\* faulty variant: the scan resumes at the sign it just rejected
ResumeAt_Same(i0, j0) == i0

\* i = j; continue
ResumeAt(i0, j0) == j0

StepInit ==
    /\ src \in IterSources
    /\ kind \in {"Ints", "UInts"}
    /\ T \in Types
    /\ s = src
    /\ op = "new"
    /\ arg = <<>>
    /\ pre = src
    /\ ret = None
    /\ prevOp = "none"
    /\ yielded = <<>>
    /\ ends = 0
    /\ inner = <<>>
    /\ alive = FALSE
    /\ pc = "idle"
    /\ scan_i = 0
    /\ scan_j = 0

\* let (s, mut i) = (self.s, 0): pre is the local s
Enter ==
    /\ pc = "idle"
    /\ CanCall
    /\ pc' = "scan"
    /\ scan_i' = 0
    /\ scan_j' = 0
    /\ pre' = s
    /\ op' = "next"
    /\ UNCHANGED <<src, kind, T, s, inner, alive, arg, ret, prevOp, yielded, ends>>

\* while i < s.len() && !start_byte(s.idx(i)) { i += 1 }
ScanStep ==
    /\ pc = "scan"
    /\ scan_i < Len(pre) /\ ~StartByte(kind, idx(pre, scan_i))
    /\ scan_i' = scan_i + 1
    /\ UNCHANGED <<src, kind, T, s, inner, alive, op, arg, pre, ret, prevOp,
                   yielded, ends, pc, scan_j>>

\* if i >= s.len() { return None; }
ReturnNone ==
    /\ pc = "scan"
    /\ ~(scan_i < Len(pre) /\ ~StartByte(kind, idx(pre, scan_i)))
    /\ scan_i >= Len(pre)
    /\ ret' = None
    /\ ends' = ends + 1
    /\ pc' = "idle"
    /\ UNCHANGED <<src, kind, T, s, inner, alive, op, arg, pre, prevOp,
                   yielded, scan_i, scan_j>>

\* let mut j = i + 1;
Found ==
    /\ pc = "scan"
    /\ ~(scan_i < Len(pre) /\ ~StartByte(kind, idx(pre, scan_i)))
    /\ scan_i < Len(pre)
    /\ scan_j' = scan_i + 1
    /\ pc' = "digits"
    /\ UNCHANGED <<src, kind, T, s, inner, alive, op, arg, pre, ret, prevOp,
                   yielded, ends, scan_i>>

\* while j < s.len() && s.idx(j).is_ascii_digit() { j += 1 }
DigitStep ==
    /\ pc = "digits"
    /\ scan_j < Len(pre) /\ is_ascii_digit(idx(pre, scan_j))
    /\ scan_j' = scan_j + 1
    /\ UNCHANGED <<src, kind, T, s, inner, alive, op, arg, pre, ret, prevOp,
                   yielded, ends, pc, scan_i>>

\* Ints only: if !s.idx(j - 1).is_ascii_digit() { i = j; continue; }
LoneSign ==
    /\ pc = "digits"
    /\ ~(scan_j < Len(pre) /\ is_ascii_digit(idx(pre, scan_j)))
    /\ kind = "Ints"
    /\ ~is_ascii_digit(idx(pre, scan_j - 1))
    /\ scan_i' = ResumeAt(scan_i, scan_j)
    /\ pc' = "scan"
    /\ UNCHANGED <<src, kind, T, s, inner, alive, op, arg, pre, ret, prevOp,
                   yielded, ends, scan_j>>

\* self.s = &s[j..]; return Some(s[i..j].parse_uw())
ReturnSome ==
    /\ pc = "digits"
    /\ ~(scan_j < Len(pre) /\ is_ascii_digit(idx(pre, scan_j)))
    /\ kind = "UInts" \/ is_ascii_digit(idx(pre, scan_j - 1))
    /\ s' = Slice(pre, scan_j, Len(pre))
    /\ ret' = parse_uw(T, Slice(pre, scan_i, scan_j))
    /\ yielded' = yielded \o Values(<<ret'>>)
    /\ pc' = "idle"
    /\ UNCHANGED <<src, kind, T, inner, alive, op, arg, pre, prevOp, ends,
                   scan_i, scan_j>>

StepNext ==
    Enter \/ ScanStep \/ ReturnNone \/ Found \/ DigitStep \/ LoneSign \/ ReturnSome

\* the code runs on: a statement that can be executed is executed
StepSpec == StepInit /\ [][StepNext]_vars /\ WF_vars(StepNext)

\* a call run statement by statement returns what the call taken as a whole
\* returns, and leaves the same cursor
StepsAgreeWithNext ==
    (pc = "idle" /\ op = "next") => [ret |-> ret, s |-> s] = iter_next(kind, T, pre)

\* C13: every call of next() of Ints and UInts returns (or panics); a call
\* that yields a value leaves a strictly shorter cursor, so the values yielded
\* and the bytes left never exceed the length L of the source, and repeated
\* calls reach the end (or a conversion panic) after at most L values.
C13_NextTerminates ==
    /\ [](/\ scan_i <= Len(pre)
          /\ scan_j <= Len(pre)
          /\ (pc = "idle" /\ op = "next" /\ ret.tag = "Some") => Len(s) < Len(pre)
          /\ Len(yielded) + Len(s) <= Len(src)
          /\ Len(yielded) <= Len(src))
    /\ (pc # "idle") ~> (pc = "idle")
    /\ <>(ends >= 1 \/ ret.tag = "Panic")

C13_Witness ==
    /\ kind = "Ints" /\ T = "i32" /\ src = DocSigns
    /\ pc = "idle" /\ op = "next" /\ ret = None /\ ends = 1
    /\ yielded = <<4, 5, -6>>
    /\ s = <<>>

====
